---- MODULE Spec2Model ----
(***************************************************************************)
(* Access-scoped retrieval of claims (goby35/RAG).                         *)
(*                                                                         *)
(* The module models the relationship-based access control resolver        *)
(* (utils/rebac.py, services/access_control_service.py,                    *)
(* utils/neo4j_client.py), the legacy gatekeeper filter                    *)
(* (utils/gatekeeper.py, services/rag_service.py), the confidence model    *)
(* (config/access.py), the temporal ranking (utils/temporal_ranking.py),   *)
(* the query pipelines (services/rag_service.py, utils/rag_engine.py), the *)
(* claim service (services/claim_service.py) and the claim repository      *)
(* (repositories/json_repository.py, repositories/claim_repository.py).    *)
(*                                                                         *)
(* Conventions                                                             *)
(*  - A Python dict is a record that carries every key; a missing key (or  *)
(*    a None value) is Absent for a string, NoList for a list and NoNumber *)
(*    for a number, and m.get(k, d) is Get, GetList or GetNumber.         *)
(*  - Scores are kept in hundredths: 0.3 is 30, 1.0 is 100.                *)
(*  - Python list indices are kept 0-based; the list itself is a TLA+      *)
(*    sequence, so index i names element i + 1.                            *)
(*  - allowed_tags is kept as the set of the list's elements; the code     *)
(*    only ever tests membership in it.                                    *)
(*  - A Cypher query without ORDER BY returns its rows in any order: the   *)
(*    operators that read rows are set-valued (one result per order).      *)
(***************************************************************************)
EXTENDS Integers, Sequences, FiniteSets, TLC

VARIABLES
    graph,      \* the graph collaborator: set of directed edges <<from, type, to>>
    graphUp,    \* TRUE while the graph collaborator can be reached
    metadata,   \* the metadata list handed to the gatekeeper (one dict per document)
    pc,         \* position of the current request
    call,       \* operation invoked and its arguments
    scope,      \* AccessScope computed for the current request
    ret,        \* value returned by the operation
    invoked,    \* collaborator calls made by the current request, in order
    claimNodes, \* the Claim nodes of the graph, in order of creation
    claimsFile, \* the claim dicts in the JSON file of the claim repository
    cache       \* _cache of the claim repository

vars == <<graph, graphUp, metadata, pc, call, scope, ret, invoked, claimNodes,
          claimsFile, cache>>

----------------------------------------------------------------------------
(* Bounds of the model *)

MaxTags == 2        \* longest claim tag list handed to can_access
MaxRels == 2        \* longest relationship list handed to combine_allowed_tags
MaxClaims == 1      \* longest claim list handed to filter_claims_by_access
MaxDocs == 2        \* longest metadata list

----------------------------------------------------------------------------
(* Values *)

Absent == "__absent__"
NoList == <<Absent>>
NoNumber == 0 - 1

Get(v, default) == IF v = Absent THEN default ELSE v
GetList(v, default) == IF v = NoList THEN default ELSE v
GetNumber(v, default) == IF v = NoNumber THEN default ELSE v

Range(s) == {s[i] : i \in 1..Len(s)}

\* every sequence of at most n elements of S
SeqUpTo(S, n) == UNION {[1..k -> S] : k \in 0..n}

\* every order in which the elements of S can be listed
Orderings(S) ==
    {f \in [1..Cardinality(S) -> S] :
        \A i, j \in 1..Cardinality(S) : i # j => f[i] # f[j]}

GraphUsers == {"u1", "u2"}          \* users that can have edges
Users == GraphUsers \cup {"u3"}     \* u3 never has an edge

----------------------------------------------------------------------------
(* utils/rebac.py *)

ALL_ACCESS_TAGS == <<"public", "friend", "internal", "hr_sensitive">>

REBAC_MATRIX_recruiting_sees_friend ==
    "SELF" :> <<"public", "friend", "internal", "hr_sensitive">> @@
    "STRANGER" :> <<"public">> @@
    "FRIEND" :> <<"public", "friend">> @@
    "COLLEAGUE" :> <<"public", "internal">> @@
    "RECRUITING" :> <<"public", "friend", "hr_sensitive">>

REBAC_MATRIX ==
    "SELF" :> <<"public", "friend", "internal", "hr_sensitive">> @@
    "STRANGER" :> <<"public">> @@
    "FRIEND" :> <<"public", "friend">> @@
    "COLLEAGUE" :> <<"public", "internal">> @@
    "RECRUITING" :> <<"public", "hr_sensitive">>

get_allowed_tags_for_relationship(relationship) ==
    IF relationship \in DOMAIN REBAC_MATRIX
    THEN REBAC_MATRIX[relationship]
    ELSE REBAC_MATRIX["STRANGER"]

combine_allowed_tags_last_wins(relationships) ==
    IF relationships = <<>> THEN {}
    ELSE Range(get_allowed_tags_for_relationship(relationships[Len(relationships)]))

combine_allowed_tags(relationships) ==
    UNION {Range(get_allowed_tags_for_relationship(relationships[i])) :
              i \in 1..Len(relationships)}

AccessScope(viewer_id, target_id, relationships, allowed_tags, is_self) ==
    [viewer_id |-> viewer_id, target_id |-> target_id,
     relationships |-> relationships, allowed_tags |-> allowed_tags,
     is_self |-> is_self]

can_access_needs_all(access_scope, claim_tags) ==
    IF claim_tags = <<>>
    THEN "public" \in access_scope.allowed_tags
    ELSE \A i \in 1..Len(claim_tags) : claim_tags[i] \in access_scope.allowed_tags

can_access(access_scope, claim_tags) ==
    IF claim_tags = <<>>
    THEN "public" \in access_scope.allowed_tags
    ELSE \E i \in 1..Len(claim_tags) : claim_tags[i] \in access_scope.allowed_tags

\* MATCH (viewer)-[r]-(target) WHERE type(r) IN [...] RETURN DISTINCT type(r):
\* the edge is matched in either direction
MatchedTypes(viewer_id, target_id) ==
    {ty \in {"FRIEND", "COLLEAGUE", "RECRUITING"} :
        <<viewer_id, ty, target_id>> \in graph \/ <<target_id, ty, viewer_id>> \in graph}

query_relationships(viewer_id, target_id) ==
    IF graphUp
    THEN Orderings(MatchedTypes(viewer_id, target_id))
    ELSE {<<>>}

determine_access_scope_no_self_check(viewer_id, target_id) ==
    {AccessScope(viewer_id, target_id,
                 IF found = <<>> THEN <<"STRANGER">> ELSE found,
                 combine_allowed_tags(IF found = <<>> THEN <<"STRANGER">> ELSE found),
                 FALSE) :
        found \in query_relationships(viewer_id, target_id)}

determine_access_scope_no_stranger_default(viewer_id, target_id) ==
    IF viewer_id = target_id
    THEN {AccessScope(viewer_id, target_id, <<"SELF">>, Range(REBAC_MATRIX["SELF"]), TRUE)}
    ELSE {AccessScope(viewer_id, target_id, found, combine_allowed_tags(found), FALSE) :
             found \in query_relationships(viewer_id, target_id)}

determine_access_scope(viewer_id, target_id) ==
    IF viewer_id = target_id
    THEN {AccessScope(viewer_id, target_id, <<"SELF">>, Range(REBAC_MATRIX["SELF"]), TRUE)}
    ELSE {AccessScope(viewer_id, target_id,
                      IF found = <<>> THEN <<"STRANGER">> ELSE found,
                      combine_allowed_tags(IF found = <<>> THEN <<"STRANGER">> ELSE found),
                      FALSE) :
             found \in query_relationships(viewer_id, target_id)}

convert_access_level_to_tags(access_level) ==
    CASE access_level = "public" -> <<"public">>
      [] access_level = "private" -> <<>>
      [] access_level = "connections_only" -> <<"friend", "internal">>
      [] access_level = "recruiter" -> <<"hr_sensitive">>
      [] OTHER -> <<"public">>

\* the tags filter_claims_by_access hands to can_access for one claim
ClaimAccessTags(claim) ==
    IF GetList(claim.access_tags, <<>>) = <<>> /\ claim.access_level # Absent
    THEN convert_access_level_to_tags(claim.access_level)
    ELSE GetList(claim.access_tags, <<>>)

filter_claims_by_access(claims, access_scope) ==
    SelectSeq(claims, LAMBDA claim : can_access(access_scope, ClaimAccessTags(claim)))

----------------------------------------------------------------------------
(* config/access.py *)

AccessConfig_REBAC_MATRIX ==
    "SELF" :> <<"public", "friend", "internal", "hr_sensitive">> @@
    "STRANGER" :> <<"public">> @@
    "FRIEND" :> <<"public", "friend">> @@
    "COLLEAGUE" :> <<"public", "internal">> @@
    "RECRUITING" :> <<"public", "hr_sensitive">>

AccessConfig_get_allowed_tags(relationship) ==
    IF relationship \in DOMAIN AccessConfig_REBAC_MATRIX
    THEN AccessConfig_REBAC_MATRIX[relationship]
    ELSE AccessConfig_REBAC_MATRIX["STRANGER"]

AccessConfig_combine_tags(relationships) ==
    UNION {Range(AccessConfig_get_allowed_tags(relationships[i])) :
              i \in 1..Len(relationships)}

base_self_declared == 30
with_evidence == 50
with_attestation == 90
trusted_organization == 100
min_for_rag == 30

VERIFIED_STATUSES == {"attested", "self_declared"}

calculate_confidence_evidence_first(has_evidence, has_attestation, from_trusted_org) ==
    IF from_trusted_org THEN trusted_organization
    ELSE IF has_evidence THEN with_evidence
    ELSE IF has_attestation THEN with_attestation
    ELSE base_self_declared

calculate_confidence(has_evidence, has_attestation, from_trusted_org) ==
    IF from_trusted_org THEN trusted_organization
    ELSE IF has_attestation THEN with_attestation
    ELSE IF has_evidence THEN with_evidence
    ELSE base_self_declared

----------------------------------------------------------------------------
(* services/access_control_service.py *)

AccessControlService_can_access(access_scope, claim_tags) ==
    IF claim_tags = <<>>
    THEN "public" \in access_scope.allowed_tags
    ELSE \E i \in 1..Len(claim_tags) : claim_tags[i] \in access_scope.allowed_tags

\* the loop over the rows: a null type is skipped, a known type is mapped,
\* any other type is dropped
RECURSIVE MapRelationshipTypes(_)
MapRelationshipTypes(rows) ==
    IF rows = <<>> THEN <<>>
    ELSE LET rel_type == Head(rows)
             rest == MapRelationshipTypes(Tail(rows))
         IN  IF rel_type = Absent THEN rest
             ELSE IF rel_type = "FRIENDS_WITH" THEN <<"FRIEND">> \o rest
             ELSE IF rel_type = "WORKS_WITH" THEN <<"COLLEAGUE">> \o rest
             ELSE IF rel_type = "RECRUITING" THEN <<"RECRUITING">> \o rest
             ELSE rest

\* MATCH viewer, MATCH target, OPTIONAL MATCH (viewer)-[r]->(target):
\* one row per outgoing edge, or a single row with a null type
DirectedRows(viewer_id, target_id) ==
    LET types == {e[2] : e \in {d \in graph : d[1] = viewer_id /\ d[3] = target_id}}
    IN  IF types = {} THEN {<<Absent>>} ELSE Orderings(types)

AccessControlService__query_relationships(viewer_id, target_id) ==
    IF graphUp
    THEN {IF MapRelationshipTypes(rows) # <<>>
          THEN MapRelationshipTypes(rows)
          ELSE <<"STRANGER">> : rows \in DirectedRows(viewer_id, target_id)}
    ELSE {<<"STRANGER">>}

AccessControlService_get_relationships(viewer_id, target_id, has_client) ==
    IF viewer_id = target_id THEN {<<"SELF">>}
    ELSE IF has_client THEN AccessControlService__query_relationships(viewer_id, target_id)
    ELSE {<<"STRANGER">>}

AccessControlService_determine_access_scope(viewer_id, target_id, has_client) ==
    {AccessScope(viewer_id, target_id, relationships,
                 AccessConfig_combine_tags(relationships),
                 viewer_id = target_id) :
        relationships \in AccessControlService_get_relationships(viewer_id, target_id, has_client)}

----------------------------------------------------------------------------
(* utils/neo4j_client.py *)

Neo4jClient_REBAC_MATRIX ==
    "SELF" :> <<"public", "friend", "internal", "hr_sensitive">> @@
    "STRANGER" :> <<"public">> @@
    "FRIEND" :> <<"public", "friend">> @@
    "COLLEAGUE" :> <<"public", "internal">> @@
    "RECRUITING" :> <<"public", "hr_sensitive">>

Neo4jClient_allowed_tags(relationships) ==
    UNION {Range(IF relationships[i] \in DOMAIN Neo4jClient_REBAC_MATRIX
                 THEN Neo4jClient_REBAC_MATRIX[relationships[i]]
                 ELSE Neo4jClient_REBAC_MATRIX["STRANGER"]) :
              i \in 1..Len(relationships)}

\* an outcome is either a returned scope or an exception that leaves the method
Returned(value) == [raised |-> FALSE, value |-> value]
Raised == [raised |-> TRUE, value |-> AccessScope(Absent, Absent, <<>>, {}, FALSE)]

\* run_query has no handler here: an unreachable graph raises out of the method
Neo4jClient_determine_access_scope(viewer_id, target_id) ==
    IF viewer_id = target_id
    THEN {Returned(AccessScope(viewer_id, target_id, <<"SELF">>,
                               Range(Neo4jClient_REBAC_MATRIX["SELF"]), TRUE))}
    ELSE IF ~graphUp THEN {Raised}
    ELSE {Returned(AccessScope(viewer_id, target_id,
                               IF found = <<>> THEN <<"STRANGER">> ELSE found,
                               Neo4jClient_allowed_tags(
                                   IF found = <<>> THEN <<"STRANGER">> ELSE found),
                               FALSE)) :
             found \in Orderings(MatchedTypes(viewer_id, target_id))}

\* create_user_relationship: MERGE (u1)-[:type]->(u2) for a valid type
create_user_relationship(from_user_id, to_user_id, relationship_type) ==
    graph \cup {<<from_user_id, relationship_type, to_user_id>>}

----------------------------------------------------------------------------
(* utils/gatekeeper.py *)

MIN_CONFIDENCE_FOR_RAG == min_for_rag

\* m.get("user_id") or m.get("source"): a missing or empty user_id falls back
FirstTruthy(a, b) == IF a \notin {Absent, ""} THEN a ELSE b

\* m.get("verified", status in VERIFIED_STATUSES)
IsVerified(m, verified_statuses) ==
    IF m.verified = Absent
    THEN Get(m.status, "self_declared") \in verified_statuses
    ELSE m.verified = "True"

\* the indices 0 .. n-1 of a list of n elements, in order
Indices(n) == [i \in 1..n |-> i - 1]

\* one iteration of the loop without the scope test
gatekeeper_allows_any_owner(m, target_user_id, viewer_id, viewer_role, min_confidence) ==
    LET access_level == Get(m.access_level, "public")
        is_verified == IsVerified(m, VERIFIED_STATUSES)
        confidence == GetNumber(m.confidence_score, base_self_declared)
    IN  IF confidence < min_confidence THEN FALSE
        ELSE IF viewer_id = target_user_id THEN TRUE
        ELSE IF viewer_role = "Recruiter"
             THEN \/ access_level = "public"
                  \/ access_level \in {"connections_only", "recruiter"} /\ is_verified
        ELSE access_level = "public"

\* the mutant lets one viewer, as a friend of every target, see every document
\* of the target that passes the confidence floor
gatekeeper_allows_known_viewer(m, target_user_id, viewer_id, viewer_role, min_confidence) ==
    LET source == FirstTruthy(m.user_id, m.source)
        access_level == Get(m.access_level, "public")
        is_verified == IsVerified(m, VERIFIED_STATUSES)
        confidence == GetNumber(m.confidence_score, base_self_declared)
    IN  IF source # target_user_id THEN FALSE
        ELSE IF confidence < min_confidence THEN FALSE
        ELSE IF viewer_id = target_user_id \/ viewer_id = "u3" THEN TRUE
        ELSE IF viewer_role = "Recruiter"
             THEN \/ access_level = "public"
                  \/ access_level \in {"connections_only", "recruiter"} /\ is_verified
        ELSE access_level = "public"

\* one iteration of the loop: TRUE when index i is appended to allowed_indices
gatekeeper_allows(m, target_user_id, viewer_id, viewer_role, min_confidence) ==
    LET source == FirstTruthy(m.user_id, m.source)
        access_level == Get(m.access_level, "public")
        is_verified == IsVerified(m, VERIFIED_STATUSES)
        confidence == GetNumber(m.confidence_score, base_self_declared)
    IN  IF source # target_user_id THEN FALSE
        ELSE IF confidence < min_confidence THEN FALSE
        ELSE IF viewer_id = target_user_id THEN TRUE
        ELSE IF viewer_role = "Recruiter"
             THEN \/ access_level = "public"
                  \/ access_level \in {"connections_only", "recruiter"} /\ is_verified
        ELSE access_level = "public"

gatekeeper_filter(md, target_user_id, viewer_id, viewer_role, min_confidence) ==
    LET min == IF min_confidence = NoNumber THEN MIN_CONFIDENCE_FOR_RAG ELSE min_confidence
    IN  SelectSeq(Indices(Len(md)),
                  LAMBDA i : gatekeeper_allows(md[i + 1], target_user_id, viewer_id,
                                               viewer_role, min))

\* list.sort(key = confidence, reverse = True): stable, so a pair goes after
\* every pair already placed whose confidence is at least its own
SortInsert(sorted, x) ==
    LET k == Cardinality({i \in 1..Len(sorted) : sorted[i][2] >= x[2]})
    IN  SubSeq(sorted, 1, k) \o <<x>> \o SubSeq(sorted, k + 1, Len(sorted))

RECURSIVE SortByConfidenceDescending(_)
SortByConfidenceDescending(pairs) ==
    IF pairs = <<>> THEN <<>>
    ELSE SortInsert(SortByConfidenceDescending(SubSeq(pairs, 1, Len(pairs) - 1)),
                    pairs[Len(pairs)])

gatekeeper_filter_with_ranking(md, target_user_id, viewer_id, viewer_role) ==
    LET allowed_indices == gatekeeper_filter(md, target_user_id, viewer_id, viewer_role, 0)
        indexed_with_confidence ==
            [k \in 1..Len(allowed_indices) |->
                <<allowed_indices[k],
                  GetNumber(md[allowed_indices[k] + 1].confidence_score, base_self_declared)>>]
    IN  SortByConfidenceDescending(indexed_with_confidence)

----------------------------------------------------------------------------
(* services/rag_service.py *)

RAGService__filter_allows(m, target_user_id, viewer_id, viewer_role, min_confidence) ==
    LET source == FirstTruthy(m.user_id, m.source)
        access_level == Get(m.access_level, "public")
        is_verified == IsVerified(m, VERIFIED_STATUSES)
        confidence == GetNumber(m.confidence_score, base_self_declared)
    IN  IF source # target_user_id THEN FALSE
        ELSE IF confidence < min_confidence THEN FALSE
        ELSE IF viewer_id = target_user_id THEN TRUE
        ELSE IF viewer_role = "Recruiter"
             THEN \/ access_level = "public"
                  \/ access_level \in {"connections_only", "recruiter"} /\ is_verified
        ELSE access_level = "public"

RAGService__filter_by_access(md, target_user_id, viewer_id, viewer_role) ==
    SelectSeq(Indices(Len(md)),
              LAMBDA i : RAGService__filter_allows(md[i + 1], target_user_id, viewer_id,
                                                   viewer_role, min_for_rag))

----------------------------------------------------------------------------
(* State after construction: an empty, reachable graph, no document loaded, *)
(* no request in progress.                                                  *)

\* _cache is None until the file is read or written
NoCache == [loaded |-> FALSE, items |-> <<>>]
Cached(items) == [loaded |-> TRUE, items |-> items]

NoCall == [op |-> "none"]
NoScope == AccessScope(Absent, Absent, <<>>, {}, FALSE)
NoRet == [kind |-> "none"]

Init ==
    /\ graph = {}
    /\ graphUp = TRUE
    /\ metadata = <<>>
    /\ pc = "idle"
    /\ call = NoCall
    /\ scope = NoScope
    /\ ret = NoRet
    /\ invoked = <<>>
    /\ claimNodes = <<>>
    /\ claimsFile = <<>>
    /\ cache = NoCache

----------------------------------------------------------------------------
(* The graph collaborator *)

CreateUserRelationship(from_user_id, to_user_id, relationship_type) ==
    /\ pc = "idle"
    /\ graphUp
    /\ from_user_id # to_user_id
    /\ <<from_user_id, relationship_type, to_user_id>> \notin graph
    /\ graph' = create_user_relationship(from_user_id, to_user_id, relationship_type)
    /\ UNCHANGED <<graphUp, metadata, pc, call, scope, ret, invoked,
                   claimNodes, claimsFile, cache>>

ClearDatabase ==
    /\ pc = "idle"
    /\ graphUp
    /\ graph # {}
    /\ graph' = {}
    /\ UNCHANGED <<graphUp, metadata, pc, call, scope, ret, invoked,
                   claimNodes, claimsFile, cache>>

ConnectionLost ==
    /\ pc = "idle"
    /\ graphUp
    /\ graphUp' = FALSE
    /\ UNCHANGED <<graph, metadata, pc, call, scope, ret, invoked,
                   claimNodes, claimsFile, cache>>

ConnectionRestored ==
    /\ pc = "idle"
    /\ ~graphUp
    /\ graphUp' = TRUE
    /\ UNCHANGED <<graph, metadata, pc, call, scope, ret, invoked,
                   claimNodes, claimsFile, cache>>

----------------------------------------------------------------------------
(* Access scope resolution: the three implementations *)

RebacDetermineAccessScope(viewer_id, target_id) ==
    /\ pc = "idle"
    /\ \E s \in determine_access_scope(viewer_id, target_id) : scope' = s
    /\ pc' = "scoped"
    /\ call' = [op |-> "rebac", viewer_id |-> viewer_id, target_id |-> target_id,
                has_client |-> TRUE]
    /\ UNCHANGED <<graph, graphUp, metadata, ret, invoked, claimNodes, claimsFile, cache>>

ServiceDetermineAccessScope(viewer_id, target_id, has_client) ==
    /\ pc = "idle"
    /\ \E s \in AccessControlService_determine_access_scope(viewer_id, target_id, has_client) :
          scope' = s
    /\ pc' = "scoped"
    /\ call' = [op |-> "service", viewer_id |-> viewer_id, target_id |-> target_id,
                has_client |-> has_client]
    /\ UNCHANGED <<graph, graphUp, metadata, ret, invoked, claimNodes, claimsFile, cache>>

Neo4jDetermineAccessScope(viewer_id, target_id) ==
    /\ pc = "idle"
    /\ \E o \in Neo4jClient_determine_access_scope(viewer_id, target_id) :
          /\ scope' = o.value
          /\ pc' = IF o.raised THEN "raised" ELSE "scoped"
    /\ call' = [op |-> "neo4j", viewer_id |-> viewer_id, target_id |-> target_id,
                has_client |-> TRUE]
    /\ UNCHANGED <<graph, graphUp, metadata, ret, invoked, claimNodes, claimsFile, cache>>

\* claim tag lists: the four known tags and one tag outside the universe
ClaimTagValues == Range(ALL_ACCESS_TAGS) \cup {"other"}

CanAccess(claim_tags) ==
    /\ pc = "scoped"
    /\ call.op \in {"rebac", "service"}
    /\ ret' = [kind |-> "can_access", claim_tags |-> claim_tags,
               access |-> IF call.op = "rebac"
                          THEN can_access(scope, claim_tags)
                          ELSE AccessControlService_can_access(scope, claim_tags)]
    /\ pc' = "checked"
    /\ UNCHANGED <<graph, graphUp, metadata, call, scope, invoked,
                   claimNodes, claimsFile, cache>>

\* claims handed to filter_claims_by_access: tagged claims (the tags decide,
\* whatever the legacy level) and untagged claims of every legacy level
Claim(access_tags, access_level) ==
    [access_tags |-> access_tags, access_level |-> access_level]

FilterClaimValues ==
    {Claim(tags, Absent) :
        tags \in {<<"public">>, <<"friend">>, <<"internal">>, <<"hr_sensitive">>,
                  <<"friend", "hr_sensitive">>, <<"other">>}}
    \cup {Claim(<<"friend">>, "public")}
    \cup {Claim(tags, level) :
            tags \in {NoList, <<>>},
            level \in {Absent, "public", "private", "connections_only", "recruiter",
                       "unknown"}}

FilterClaimsByAccess(claims) ==
    /\ pc = "scoped"
    /\ call.op = "rebac"
    /\ ret' = [kind |-> "filter", claims |-> claims,
               accessible_claims |-> filter_claims_by_access(claims, scope)]
    /\ pc' = "filtered"
    /\ UNCHANGED <<graph, graphUp, metadata, call, scope, invoked,
                   claimNodes, claimsFile, cache>>

RelationshipValues == {"SELF", "STRANGER", "FRIEND", "COLLEAGUE", "RECRUITING", "UNKNOWN"}

GetAllowedTagsForRelationship(relationship) ==
    /\ pc = "idle"
    /\ call' = [op |-> "get_allowed_tags_for_relationship", relationship |-> relationship]
    /\ ret' = [kind |-> "tags", tags |-> get_allowed_tags_for_relationship(relationship)]
    /\ pc' = "tags"
    /\ UNCHANGED <<graph, graphUp, metadata, scope, invoked,
                   claimNodes, claimsFile, cache>>

AccessConfigGetAllowedTags(relationship) ==
    /\ pc = "idle"
    /\ call' = [op |-> "AccessConfig.get_allowed_tags", relationship |-> relationship]
    /\ ret' = [kind |-> "tags", tags |-> AccessConfig_get_allowed_tags(relationship)]
    /\ pc' = "tags"
    /\ UNCHANGED <<graph, graphUp, metadata, scope, invoked,
                   claimNodes, claimsFile, cache>>

\* the request ends and its values are dropped
Return ==
    /\ pc # "idle"
    /\ pc' = "idle"
    /\ call' = NoCall
    /\ scope' = NoScope
    /\ ret' = NoRet
    /\ invoked' = <<>>
    /\ UNCHANGED <<graph, graphUp, metadata, claimNodes, claimsFile, cache>>

GraphStep ==
    \/ \E f \in GraphUsers, t \in GraphUsers, ty \in {"FRIEND", "COLLEAGUE", "RECRUITING"} :
          CreateUserRelationship(f, t, ty)
    \/ ClearDatabase

Next ==
    \/ GraphStep
    \/ ConnectionLost
    \/ ConnectionRestored
    \/ \E v \in Users, t \in Users : RebacDetermineAccessScope(v, t)
    \/ \E v \in Users, t \in Users, c \in BOOLEAN : ServiceDetermineAccessScope(v, t, c)
    \/ \E v \in Users, t \in Users : Neo4jDetermineAccessScope(v, t)
    \/ \E tags \in SeqUpTo(ClaimTagValues, MaxTags) : CanAccess(tags)
    \/ \E claims \in SeqUpTo(FilterClaimValues, MaxClaims) : FilterClaimsByAccess(claims)
    \/ \E r \in RelationshipValues : GetAllowedTagsForRelationship(r)
    \/ \E r \in RelationshipValues : AccessConfigGetAllowedTags(r)
    \/ Return

Spec == Init /\ [][Next]_vars

----------------------------------------------------------------------------
(* Properties of the access scope resolver, checked under Spec *)

Scoped == pc \in {"scoped", "checked", "filtered"}

\* an edge of one of the three stored types joins the two users, in either direction
EdgeBetween(a, b) ==
    \E ty \in {"FRIEND", "COLLEAGUE", "RECRUITING"} :
        <<a, ty, b>> \in graph \/ <<b, ty, a>> \in graph

\* C5 - Self supremacy: whenever a scope has been requested for viewer u and
\* target u, in any state of the graph (reachable or not), a scope is returned
\* and its allowed tags are the whole tag universe.
C5_SelfSupremacy ==
    (pc # "idle" /\ call.op \in {"rebac", "service", "neo4j"}
        /\ call.viewer_id = call.target_id)
    => (Scoped /\ scope.allowed_tags = {"public", "friend", "internal", "hr_sensitive"})

C5_Witness ==
    /\ pc = "scoped"
    /\ call.op = "rebac"
    /\ call.viewer_id = call.target_id
    /\ ~graphUp
    /\ scope.is_self

\* C6 - Stranger floor: a scope computed for two different users that no
\* FRIEND, COLLEAGUE or RECRUITING edge joins unlocks exactly {public}.
C6_StrangerFloor ==
    (Scoped /\ call.viewer_id # call.target_id
        /\ ~EdgeBetween(call.viewer_id, call.target_id))
    => scope.allowed_tags = {"public"}

C6_Witness ==
    /\ pc = "scoped"
    /\ call.op = "rebac"
    /\ graphUp
    /\ graph # {}
    /\ call.viewer_id # call.target_id
    /\ ~EdgeBetween(call.viewer_id, call.target_id)
    /\ scope.relationships = <<"STRANGER">>

\* C7 - Fail-closed lookup: when the graph cannot be reached while the
\* relationships of two different users are looked up, every implementation
\* returns (does not raise) a scope with the STRANGER relationship that unlocks
\* exactly {public}.
C7_FailClosed ==
    (pc # "idle" /\ call.op \in {"rebac", "service", "neo4j"}
        /\ call.viewer_id # call.target_id /\ call.has_client /\ ~graphUp)
    => (/\ pc # "raised"
        /\ scope.relationships = <<"STRANGER">>
        /\ scope.allowed_tags = {"public"})

\* C8 - can_access(claimTags) is true exactly when claimTags is empty or shares
\* a tag with the allowed tags of the scope it is asked of.
C8_CanAccessIff ==
    pc = "checked"
    => (ret.access <=> (\/ ret.claim_tags = <<>>
                        \/ Range(ret.claim_tags) \cap scope.allowed_tags # {}))

C8_Witness ==
    /\ pc = "checked"
    /\ Len(ret.claim_tags) = 2
    /\ ret.claim_tags[1] \notin scope.allowed_tags
    /\ ret.claim_tags[2] \in scope.allowed_tags
    /\ ret.access

\* the relationship-to-tag matrix as the specification states it
MatrixRow(relationship) ==
    CASE relationship = "SELF" -> {"public", "friend", "internal", "hr_sensitive"}
      [] relationship = "STRANGER" -> {"public"}
      [] relationship = "FRIEND" -> {"public", "friend"}
      [] relationship = "COLLEAGUE" -> {"public", "internal"}
      [] relationship = "RECRUITING" -> {"public", "hr_sensitive"}

KnownRelationships == {"SELF", "STRANGER", "FRIEND", "COLLEAGUE", "RECRUITING"}

\* C9 - A single relationship unlocks exactly its row of the matrix, both when
\* the row is read directly and when a scope holds that one relationship; a
\* viewer whose only relationship is RECRUITING is refused a claim tagged only
\* friend and is given every claim tagged hr_sensitive.
C9_MatrixRows ==
    /\ (pc = "tags" /\ call.relationship \in KnownRelationships)
       => Range(ret.tags) = MatrixRow(call.relationship)
    /\ (Scoped /\ Len(scope.relationships) = 1)
       => scope.allowed_tags = MatrixRow(scope.relationships[1])
    /\ (pc = "filtered" /\ scope.relationships = <<"RECRUITING">>)
       => \A i \in 1..Len(ret.claims) :
             LET claim == ret.claims[i]
                 passed == \E j \in 1..Len(ret.accessible_claims) :
                              ret.accessible_claims[j] = claim
             IN  /\ claim.access_tags = <<"friend">> => ~passed
                 /\ "hr_sensitive" \in Range(claim.access_tags) => passed

C9_Witness ==
    /\ pc = "filtered"
    /\ scope.relationships = <<"RECRUITING">>
    /\ ret.claims = <<Claim(<<"friend">>, Absent)>>
    /\ ret.accessible_claims = <<>>

----------------------------------------------------------------------------
(* Pure functions of the configuration, applied to inputs drawn from bounded *)
(* sets.                                                                     *)

CombineAllowedTags(rels1, rels2) ==
    /\ pc = "idle"
    /\ call' = [op |-> "combine_allowed_tags", rels1 |-> rels1, rels2 |-> rels2]
    /\ ret' = [kind |-> "combined", tags1 |-> combine_allowed_tags(rels1),
               tags2 |-> combine_allowed_tags(rels2)]
    /\ pc' = "combined"
    /\ UNCHANGED <<graph, graphUp, metadata, scope, invoked,
                   claimNodes, claimsFile, cache>>

AccessConfigCombineTags(rels1, rels2) ==
    /\ pc = "idle"
    /\ call' = [op |-> "AccessConfig.combine_tags", rels1 |-> rels1, rels2 |-> rels2]
    /\ ret' = [kind |-> "combined", tags1 |-> AccessConfig_combine_tags(rels1),
               tags2 |-> AccessConfig_combine_tags(rels2)]
    /\ pc' = "combined"
    /\ UNCHANGED <<graph, graphUp, metadata, scope, invoked,
                   claimNodes, claimsFile, cache>>

CalculateConfidence(has_evidence, has_attestation, from_trusted_org) ==
    /\ pc = "idle"
    /\ call' = [op |-> "calculate_confidence", has_evidence |-> has_evidence,
                has_attestation |-> has_attestation,
                from_trusted_org |-> from_trusted_org]
    /\ ret' = [kind |-> "confidence",
               confidence |-> calculate_confidence(has_evidence, has_attestation,
                                                   from_trusted_org)]
    /\ pc' = "confidence"
    /\ UNCHANGED <<graph, graphUp, metadata, scope, invoked,
                   claimNodes, claimsFile, cache>>

NextPure ==
    \/ /\ pc = "idle"
       /\ \E r1 \in SeqUpTo(RelationshipValues, MaxRels),
             r2 \in SeqUpTo(RelationshipValues, MaxRels) : CombineAllowedTags(r1, r2)
    \/ /\ pc = "idle"
       /\ \E r1 \in SeqUpTo(RelationshipValues, MaxRels),
             r2 \in SeqUpTo(RelationshipValues, MaxRels) : AccessConfigCombineTags(r1, r2)
    \/ \E e \in BOOLEAN, a \in BOOLEAN, t \in BOOLEAN : CalculateConfidence(e, a, t)
    \/ Return

SpecPure == Init /\ [][NextPure]_vars

\* C4 - Monotonic access: when the relationships of one list all occur in
\* another, every tag the first list unlocks is unlocked by the second.
C4_MonotonicAccess ==
    (pc = "combined" /\ Range(call.rels1) \subseteq Range(call.rels2))
    => ret.tags1 \subseteq ret.tags2

C4_Witness ==
    /\ pc = "combined"
    /\ call.rels1 = <<"FRIEND">>
    /\ call.rels2 = <<"FRIEND", "RECRUITING">>
    /\ ret.tags1 = {"public", "friend"}
    /\ ret.tags2 = {"public", "friend", "hr_sensitive"}

\* C10 - calculate_confidence returns the value of the first rule that
\* matches, in the order trusted organisation 1.0, attestation 0.9,
\* evidence 0.5, otherwise 0.3 (values in hundredths).
C10_ConfidencePolicy ==
    pc = "confidence"
    => ret.confidence =
          CASE call.from_trusted_org -> 100
            [] ~call.from_trusted_org /\ call.has_attestation -> 90
            [] ~call.from_trusted_org /\ ~call.has_attestation /\ call.has_evidence -> 50
            [] OTHER -> 30

C10_Witness ==
    /\ pc = "confidence"
    /\ call.has_evidence
    /\ call.has_attestation
    /\ ~call.from_trusted_org
    /\ ret.confidence = 90

----------------------------------------------------------------------------
(* The gatekeeper filter, applied to the loaded metadata list *)

Meta(owner, access, trust) ==
    [user_id |-> owner[1], source |-> owner[2],
     access_level |-> access[1], access_tags |-> access[2],
     status |-> trust[1], verified |-> trust[2], confidence_score |-> trust[3]]

\* (user_id, source): both set by the loaders, the legacy schema with source
\* only, an empty user_id, and a record whose two keys disagree
BaseOwner == <<"u1", "u1">>
OwnerValues == {BaseOwner, <<"u2", "u2">>, <<Absent, "u2">>, <<"", "u2">>, <<"u1", "u2">>}

\* (access_level, access_tags)
BaseAccess == <<"public", <<"public">>>>
AccessValues ==
    {BaseAccess, <<"public", <<"hr_sensitive">>>>, <<"private", <<"friend">>>>,
     <<"recruiter", <<"hr_sensitive">>>>, <<Absent, NoList>>}

\* (status, verified, confidence_score): defaults, attested, revoked by
\* revoke_claim (confidence 0.0), revoked by update_claim_status (confidence
\* recomputed without attestation, 0.3)
BaseTrust == <<Absent, Absent, NoNumber>>
TrustValues ==
    {BaseTrust, <<"attested", "True", 90>>, <<"revoked", "False", 0>>,
     <<"revoked", Absent, 30>>}

\* every access and trust combination for the base owner, and one document
\* for every other owner form
MetaValues ==
    {Meta(BaseOwner, a, t) : a \in AccessValues, t \in TrustValues}
    \cup {Meta(o, BaseAccess, BaseTrust) : o \in OwnerValues}

TargetValues == {"u1", "u2"}
RoleValues == {"Default", "Recruiter"}
MinConfidenceValues == {NoNumber, 0, 50}

LoadDocument(m) ==
    /\ pc = "idle"
    /\ Len(metadata) < MaxDocs
    /\ metadata' = Append(metadata, m)
    /\ UNCHANGED <<graph, graphUp, pc, call, scope, ret, invoked,
                   claimNodes, claimsFile, cache>>

GateCall(op, target_user_id, viewer_id, viewer_role, min_confidence) ==
    [op |-> op, target_user_id |-> target_user_id, viewer_id |-> viewer_id,
     viewer_role |-> viewer_role, min_confidence |-> min_confidence]

GatekeeperFilter(target_user_id, viewer_id, viewer_role, min_confidence) ==
    /\ pc = "idle"
    /\ call' = GateCall("gatekeeper_filter", target_user_id, viewer_id, viewer_role,
                        min_confidence)
    /\ ret' = [kind |-> "indices",
               allowed_indices |-> gatekeeper_filter(metadata, target_user_id, viewer_id,
                                                     viewer_role, min_confidence)]
    /\ pc' = "gated"
    /\ UNCHANGED <<graph, graphUp, metadata, scope, invoked,
                   claimNodes, claimsFile, cache>>

GatekeeperFilterWithRanking(target_user_id, viewer_id, viewer_role) ==
    /\ pc = "idle"
    /\ call' = GateCall("gatekeeper_filter_with_ranking", target_user_id, viewer_id,
                        viewer_role, 0)
    /\ ret' = [kind |-> "ranked",
               allowed_indices |->
                   LET ranked == gatekeeper_filter_with_ranking(
                                     metadata, target_user_id, viewer_id, viewer_role)
                   IN  [k \in 1..Len(ranked) |-> ranked[k][1]]]
    /\ pc' = "gated"
    /\ UNCHANGED <<graph, graphUp, metadata, scope, invoked,
                   claimNodes, claimsFile, cache>>

FilterByAccess(target_user_id, viewer_id, viewer_role) ==
    /\ pc = "idle"
    /\ call' = GateCall("RAGService._filter_by_access", target_user_id, viewer_id,
                        viewer_role, NoNumber)
    /\ ret' = [kind |-> "indices",
               allowed_indices |-> RAGService__filter_by_access(
                                       metadata, target_user_id, viewer_id, viewer_role)]
    /\ pc' = "gated"
    /\ UNCHANGED <<graph, graphUp, metadata, scope, invoked,
                   claimNodes, claimsFile, cache>>

NextGate ==
    \/ \E m \in MetaValues : LoadDocument(m)
    \/ \E t \in TargetValues, v \in Users, r \in RoleValues, c \in MinConfidenceValues :
          GatekeeperFilter(t, v, r, c)
    \/ \E t \in TargetValues, v \in Users, r \in RoleValues :
          GatekeeperFilterWithRanking(t, v, r)
    \/ \E t \in TargetValues, v \in Users, r \in RoleValues : FilterByAccess(t, v, r)
    \/ Return

SpecGate == Init /\ [][NextGate]_vars

\* the documents whose index the filter returned
ReturnedIndices == Range(ret.allowed_indices)

\* C1 - No cross-target leakage: every index the filter returns is an index of
\* the metadata list and names a document whose owner (user_id, or source when
\* user_id is missing or empty) is the requested target.
C1_NoCrossTargetLeakage ==
    pc = "gated"
    => \A i \in ReturnedIndices :
          /\ i \in 0..(Len(metadata) - 1)
          /\ LET m == metadata[i + 1]
             IN  IF m.user_id \in {Absent, ""}
                 THEN m.source = call.target_user_id
                 ELSE m.user_id = call.target_user_id

C1_Witness ==
    /\ pc = "gated"
    /\ call.target_user_id = "u2"
    /\ Len(metadata) = 2
    /\ metadata[1] = Meta(<<"u1", "u2">>, BaseAccess, BaseTrust)
    /\ metadata[2] = Meta(<<"", "u2">>, BaseAccess, BaseTrust)
    /\ ret.allowed_indices = <<1>>

\* C2 - Revoked invisibility: no index the filter returns names a document
\* whose status is revoked, whoever the viewer is and whatever the other
\* fields and the minimum confidence are.
C2_RevokedInvisible ==
    pc = "gated"
    => \A i \in ReturnedIndices : metadata[i + 1].status # "revoked"

\* C3 - Gatekeeper access control: every document the filter returns for a
\* viewer and a target satisfies can_access of its tags under the access scope
\* of that viewer and target.
C3_GateRespectsScope ==
    pc = "gated"
    => \A i \in ReturnedIndices :
          \A s \in determine_access_scope(call.viewer_id, call.target_user_id) :
              can_access(s, GetList(metadata[i + 1].access_tags, <<>>))

----------------------------------------------------------------------------
(* utils/temporal_ranking.py                                               *)
(*                                                                         *)
(* A point in time is a number of ticks (TicksPerDay ticks to the day); a  *)
(* datetime is a record of its wall-clock ticks and whether it carries a   *)
(* tzinfo.  A timestamp as a claim dict holds it is a record               *)
(* [kind, ticks, aware]: None, a Python datetime, a Neo4j DateTime, an ISO *)
(* string, a string fromisoformat rejects, or a value of another type.     *)
(* Weights are kept in ten-thousandths (0.40 is 4000); a combined score is *)
(* the fraction num / den of hundredths.                                   *)

TicksPerDay == 2
Day(n) == n * TicksPerDay

SEMANTIC_WEIGHT == 4000
CONFIDENCE_WEIGHT == 4000
FRESHNESS_WEIGHT == 2000
WeightOne == 10000                  \* the weight 1.0
WeightTolerance == 10               \* 0.001

FRESH_PERIOD_DAYS == 180
HALF_LIFE_DAYS == 365
MIN_FRESHNESS_SCORE == 10
FullScore == 100                    \* the score 1.0

None == [kind |-> "none", ticks |-> 0, aware |-> FALSE]
DateTime(ticks, aware) == [kind |-> "datetime", ticks |-> ticks, aware |-> aware]
Neo4jDateTime(ticks) == [kind |-> "neo4j", ticks |-> ticks, aware |-> TRUE]
IsoString(ticks, aware) == [kind |-> "str", ticks |-> ticks, aware |-> aware]
BadString == [kind |-> "badstr", ticks |-> 0, aware |-> FALSE]
OtherValue == [kind |-> "other", ticks |-> 0, aware |-> FALSE]

_convert_to_datetime(value) ==
    CASE value.kind = "none" -> None
      [] value.kind = "datetime" -> value
      [] value.kind = "neo4j" -> DateTime(value.ticks, value.aware)   \* to_native()
      [] value.kind = "str" -> DateTime(value.ticks, value.aware)     \* fromisoformat
      [] value.kind = "badstr" -> None                                \* ValueError caught
      [] OTHER -> None

\* datetime.replace(tzinfo = None): the wall-clock reading is kept
StripTzinfo(dt) == IF dt.aware THEN DateTime(dt.ticks, FALSE) ELSE dt

\* timedelta.days: whole days, rounded towards minus infinity
TimedeltaDays(later, earlier) == (later.ticks - earlier.ticks) \div TicksPerDay

Max(a, b) == IF a >= b THEN a ELSE b
Abs(a) == IF a >= 0 THEN a ELSE 0 - a

\* math.log1p(num / den) in thousandths, for num >= 0 and den > 0:
\* ln((den + num) / den) = k * ln 2 + 2 * atanh((m - 1) / (m + 1)) where
\* (den + num) / den = m * 2^k and 1 <= m < 2; atanh by its series, every
\* division rounded down
LN2 == 693

RECURSIVE ScaleBelow(_, _)
ScaleBelow(d, n) == IF 2 * d <= n THEN ScaleBelow(2 * d, n) ELSE d

RECURSIVE Doublings(_, _)
Doublings(d, n) == IF 2 * d <= n THEN 1 + Doublings(2 * d, n) ELSE 0

log1p(num, den) ==
    LET n == den + num
        d == ScaleBelow(den, n)
        z == ((n - d) * 1000) \div (n + d)
        z3 == (z * z * z) \div 1000000
        z5 == (z3 * z * z) \div 1000000
    IN  Doublings(den, n) * LN2 + 2 * (z + (z3 \div 3) + (z5 \div 5))

\* the mutant drops the expiration test
calculate_time_decay_ignores_expiration(verified_at, expiration_date, reference_time) ==
    IF verified_at = None THEN MIN_FRESHNESS_SCORE
    ELSE LET age_days == TimedeltaDays(reference_time, StripTzinfo(verified_at))
         IN  IF age_days <= FRESH_PERIOD_DAYS THEN FullScore
             ELSE Max((FullScore * 1000)
                          \div (1000 + log1p(age_days - FRESH_PERIOD_DAYS, HALF_LIFE_DAYS)),
                      MIN_FRESHNESS_SCORE)

\* the mutant decays from the first day instead of after the fresh period
calculate_time_decay_no_fresh_period(verified_at, expiration_date, reference_time) ==
    IF verified_at = None THEN MIN_FRESHNESS_SCORE
    ELSE IF expiration_date # None
            /\ reference_time.ticks > StripTzinfo(expiration_date).ticks
    THEN MIN_FRESHNESS_SCORE
    ELSE LET age_days == TimedeltaDays(reference_time, StripTzinfo(verified_at))
         IN  IF age_days <= 0 THEN FullScore
             ELSE Max((FullScore * 1000) \div (1000 + log1p(age_days, HALF_LIFE_DAYS)),
                      MIN_FRESHNESS_SCORE)

\* the mutant leaves out the final max(decay_factor, MIN_FRESHNESS_SCORE)
calculate_time_decay_no_floor(verified_at, expiration_date, reference_time) ==
    IF verified_at = None THEN MIN_FRESHNESS_SCORE
    ELSE IF expiration_date # None
            /\ reference_time.ticks > StripTzinfo(expiration_date).ticks
    THEN MIN_FRESHNESS_SCORE
    ELSE LET age_days == TimedeltaDays(reference_time, StripTzinfo(verified_at))
         IN  IF age_days <= FRESH_PERIOD_DAYS THEN FullScore
             ELSE (FullScore * 1000)
                      \div (1000 + log1p(age_days - FRESH_PERIOD_DAYS, HALF_LIFE_DAYS))

\* reference_time is a naive datetime (the callers pass none and the code
\* takes datetime.now())
calculate_time_decay(verified_at, expiration_date, reference_time) ==
    IF verified_at = None THEN MIN_FRESHNESS_SCORE
    ELSE IF expiration_date # None
            /\ reference_time.ticks > StripTzinfo(expiration_date).ticks
    THEN MIN_FRESHNESS_SCORE
    ELSE LET age_days == TimedeltaDays(reference_time, StripTzinfo(verified_at))
         IN  IF age_days <= FRESH_PERIOD_DAYS THEN FullScore
             ELSE Max((FullScore * 1000)
                          \div (1000 + log1p(age_days - FRESH_PERIOD_DAYS, HALF_LIFE_DAYS)),
                      MIN_FRESHNESS_SCORE)

\* a claim dict with its temporal keys and the keys rank_claims reads
RankedClaim(claim_id, status, confidence_score, verified_at, created_at, expiration_date) ==
    [claim_id |-> claim_id, status |-> status, confidence_score |-> confidence_score,
     verified_at |-> verified_at, created_at |-> created_at,
     expiration_date |-> expiration_date]

calculate_freshness_score(claim, reference_time) ==
    LET verified_at == IF claim.verified_at = None THEN claim.created_at
                       ELSE claim.verified_at
    IN  calculate_time_decay(_convert_to_datetime(verified_at),
                             _convert_to_datetime(claim.expiration_date),
                             reference_time)

\* the outcome of calculate_combined_score: the score num / den (hundredths),
\* or the ZeroDivisionError of dividing the weights by a zero total
Score(num, den) == [raised |-> FALSE, num |-> num, den |-> den]
ZeroDivisionError == [raised |-> TRUE, num |-> 0, den |-> 1]

Min(a, b) == IF a <= b THEN a ELSE b

\* the mutant caps every weight at 1.0 before it normalises
calculate_combined_score_capped_weights(semantic_score, confidence_score, freshness_score, semantic_weight, confidence_weight, freshness_weight) ==
    LET sw == Min(semantic_weight, WeightOne)
        cw == Min(confidence_weight, WeightOne)
        fw == Min(freshness_weight, WeightOne)
        total_weight == sw + cw + fw
        weighted == sw * semantic_score + cw * confidence_score + fw * freshness_score
    IN  IF Abs(total_weight - WeightOne) > WeightTolerance
        THEN IF total_weight = 0 THEN ZeroDivisionError
             ELSE Score(weighted, total_weight)
        ELSE Score(weighted, WeightOne)

\* w / total * s summed over the three parts is (sum of w * s) / total
calculate_combined_score(semantic_score, confidence_score, freshness_score, semantic_weight, confidence_weight, freshness_weight) ==
    LET total_weight == semantic_weight + confidence_weight + freshness_weight
        weighted == semantic_weight * semantic_score
                    + confidence_weight * confidence_score
                    + freshness_weight * freshness_score
    IN  IF Abs(total_weight - WeightOne) > WeightTolerance
        THEN IF total_weight = 0 THEN ZeroDivisionError
             ELSE Score(weighted, total_weight)
        ELSE Score(weighted, WeightOne)

ScoredClaim(claim, semantic_score, confidence_score, freshness_score, final_score) ==
    [claim |-> claim, semantic_score |-> semantic_score,
     confidence_score |-> confidence_score, freshness_score |-> freshness_score,
     final_score |-> final_score]

\* rank_claims scores with the default weights, whose total is 1.0: every
\* final score has the denominator WeightOne and the sort compares numerators.
\* list.sort(key = final_score, reverse = True) is stable: a claim goes after
\* every claim already placed whose final score is at least its own
RankInsert(sorted, x) ==
    LET k == Cardinality({i \in 1..Len(sorted) :
                             sorted[i].final_score.num >= x.final_score.num})
    IN  SubSeq(sorted, 1, k) \o <<x>> \o SubSeq(sorted, k + 1, Len(sorted))

RECURSIVE SortByFinalScoreDescending(_)
SortByFinalScoreDescending(scored) ==
    IF scored = <<>> THEN <<>>
    ELSE RankInsert(SortByFinalScoreDescending(SubSeq(scored, 1, Len(scored) - 1)),
                    scored[Len(scored)])

ValueError == [raised |-> TRUE, ranked |-> <<>>]
Ranked(scored_claims) == [raised |-> FALSE, ranked |-> scored_claims]

rank_claims(claims, semantic_scores, reference_time) ==
    IF Len(claims) # Len(semantic_scores) THEN ValueError
    ELSE Ranked(SortByFinalScoreDescending(
             [k \in 1..Len(claims) |->
                 LET conf_score == GetNumber(claims[k].confidence_score, 30)
                     fresh_score == calculate_freshness_score(claims[k], reference_time)
                 IN  ScoredClaim(claims[k], semantic_scores[k], conf_score, fresh_score,
                                 calculate_combined_score(
                                     semantic_scores[k], conf_score, fresh_score,
                                     SEMANTIC_WEIGHT, CONFIDENCE_WEIGHT,
                                     FRESHNESS_WEIGHT))]))

----------------------------------------------------------------------------
(* The temporal ranking functions, applied to timestamps around one        *)
(* reference day                                                           *)

MaxRanked == 2      \* longest claim list handed to rank_claims

Today == 3600000    \* day number of the reference time

\* ages of 3600000, 600000, 545, 181, 180 and a half, 180, 1 and 0 days, and
\* two timestamps after the reference time
TimeValues ==
    {Day(0), Day(Today - 600000), Day(Today - 545), Day(Today - 181),
     Day(Today - 180) - 1, Day(Today - 180), Day(Today - 1), Day(Today),
     Day(Today) + 1, Day(Today + 100)}

DatetimeValues == {DateTime(t, a) : t \in TimeValues, a \in BOOLEAN}
ReferenceValues == {DateTime(Day(Today), FALSE), DateTime(Day(Today) + 1, FALSE)}

\* timestamps as a claim dict holds them
RawTimeValues ==
    {None, DateTime(Day(Today - 1), FALSE), Neo4jDateTime(Day(Today - 545)),
     IsoString(Day(Today - 181), TRUE), IsoString(Day(Today + 100), FALSE),
     BadString, OtherValue}

FreshnessClaimValues ==
    {RankedClaim("c1", "self_declared", NoNumber, v, c, e) : v, c, e \in RawTimeValues}

ScoreValues == {0, 50, 100}
WeightValues == {0 - 2000, 0, 2000, 4000, 4003}
ScaleValues == {2, 3}

\* claims c1 and c2, each fresh (created yesterday) or stale (no timestamp),
\* self-declared, an attested c2, and a revoked c1 as update_claim_status
\* leaves it (confidence 0.3) and as revoke_claim leaves it (confidence 0.0)
RankClaimValues ==
    {RankedClaim(id, "self_declared", NoNumber, None, c, None) :
        id \in {"c1", "c2"}, c \in {None, IsoString(Day(Today - 1), FALSE)}}
    \cup {RankedClaim("c2", "attested", 90, IsoString(Day(Today - 545), FALSE), None, None)}
    \cup {RankedClaim("c1", "revoked", conf, None, IsoString(Day(Today - 1), FALSE), None) :
            conf \in {0, 30}}

SemanticValues == {50, 95}

CalculateTimeDecay(verified_at, expiration_date, reference_time) ==
    /\ call' = [op |-> "calculate_time_decay", verified_at |-> verified_at,
                expiration_date |-> expiration_date, reference_time |-> reference_time]
    /\ ret' = [kind |-> "freshness", raised |-> FALSE,
               freshness |-> calculate_time_decay(verified_at, expiration_date,
                                                  reference_time)]
    /\ pc' = "decayed"
    /\ UNCHANGED <<graph, graphUp, metadata, scope, invoked,
                   claimNodes, claimsFile, cache>>

CalculateFreshnessScore(claim, reference_time) ==
    /\ call' = [op |-> "calculate_freshness_score", claim |-> claim,
                reference_time |-> reference_time]
    /\ ret' = [kind |-> "freshness", raised |-> FALSE,
               freshness |-> calculate_freshness_score(claim, reference_time)]
    /\ pc' = "fresh"
    /\ UNCHANGED <<graph, graphUp, metadata, scope, invoked,
                   claimNodes, claimsFile, cache>>

CalculateCombinedScore(scores, weights) ==
    /\ call' = [op |-> "calculate_combined_score", scores |-> scores, weights |-> weights]
    /\ ret' = [kind |-> "score",
               score |-> calculate_combined_score(scores[1], scores[2], scores[3],
                                                  weights[1], weights[2], weights[3])]
    /\ pc' = "scored"
    /\ UNCHANGED <<graph, graphUp, metadata, scope, invoked,
                   claimNodes, claimsFile, cache>>

RankClaims(claims, semantic_scores, reference_time) ==
    /\ call' = [op |-> "rank_claims", claims |-> claims,
                semantic_scores |-> semantic_scores, reference_time |-> reference_time]
    /\ ret' = [kind |-> "ranking",
               outcome |-> rank_claims(claims, semantic_scores, reference_time)]
    /\ pc' = "ranked"
    /\ UNCHANGED <<graph, graphUp, metadata, scope, invoked,
                   claimNodes, claimsFile, cache>>

NextRank ==
    \/ /\ pc = "idle"
       /\ \E v, e \in DatetimeValues \cup {None}, r \in ReferenceValues :
             CalculateTimeDecay(v, e, r)
    \/ /\ pc = "idle"
       /\ \E claim \in FreshnessClaimValues, r \in ReferenceValues :
             CalculateFreshnessScore(claim, r)
    \/ /\ pc = "idle"
       /\ \E scores \in [1..3 -> ScoreValues], weights \in [1..3 -> WeightValues] :
             CalculateCombinedScore(scores, weights)
    \/ /\ pc = "idle"
       /\ \E claims \in SeqUpTo(RankClaimValues, MaxRanked),
             semantic_scores \in SeqUpTo(SemanticValues, MaxRanked) :
             RankClaims(claims, semantic_scores, DateTime(Day(Today), FALSE))
    \/ Return

SpecRank == Init /\ [][NextRank]_vars

\* age in whole days of the verification time of the current call
AgeDays(verified_at, reference_time) ==
    TimedeltaDays(reference_time, StripTzinfo(verified_at))

\* the reference time is later than the expiration time
Expired(expiration_date, reference_time) ==
    /\ expiration_date # None
    /\ reference_time.ticks > expiration_date.ticks

\* C11 - Freshness bounds: for every verification time (none and times after
\* the reference time included), every expiration time (none included) and
\* every reference time, calculate_time_decay returns a value between
\* MIN_FRESHNESS_SCORE and 1.0.
C11_FreshnessBounds ==
    pc = "decayed"
    => /\ ~ret.raised
       /\ MIN_FRESHNESS_SCORE <= ret.freshness
       /\ ret.freshness <= FullScore

\* the decay formula falls below the floor and the floor is returned
C11_Witness ==
    /\ pc = "decayed"
    /\ call.verified_at = DateTime(Day(0), FALSE)
    /\ call.expiration_date = None
    /\ ret.freshness = MIN_FRESHNESS_SCORE

\* C12 - For a claim that is not expired and has a verification time,
\* freshness is 1.0 up to and including an age of FRESH_PERIOD_DAYS and never
\* grows with age: an older verification time never gets a higher value.
C12_FreshnessNonIncreasing ==
    (/\ pc = "decayed"
     /\ call.verified_at # None
     /\ ~Expired(call.expiration_date, call.reference_time))
    => /\ AgeDays(call.verified_at, call.reference_time) <= FRESH_PERIOD_DAYS
              => ret.freshness = FullScore
       /\ \A older \in DatetimeValues :
              AgeDays(older, call.reference_time)
                  >= AgeDays(call.verified_at, call.reference_time)
              => calculate_time_decay(older, call.expiration_date, call.reference_time)
                     <= ret.freshness

\* one day past the fresh period the value has dropped below 1.0
C12_Witness ==
    /\ pc = "decayed"
    /\ call.verified_at = DateTime(Day(Today - 181), FALSE)
    /\ call.expiration_date = None
    /\ call.reference_time = DateTime(Day(Today), FALSE)
    /\ ret.freshness < FullScore
    /\ ret.freshness > MIN_FRESHNESS_SCORE
    /\ calculate_time_decay(DateTime(Day(Today - 180) - 1, FALSE), None,
                            call.reference_time) = FullScore

\* C13 - Scenario D: a claim with no verification time and no expiration time
\* gets freshness MIN_FRESHNESS_SCORE from calculate_freshness_score, whatever
\* its creation time.
C13_UnverifiedIsStale ==
    (/\ pc = "fresh"
     /\ call.claim.verified_at = None
     /\ call.claim.expiration_date = None)
    => ret.freshness = MIN_FRESHNESS_SCORE

\* a timestamp that cannot be parsed or is not a timestamp at all
Malformed(value) == value.kind \in {"badstr", "other"}

\* C19 - MalformedTimestamp: when the verification, creation or expiration
\* timestamp of a claim cannot be parsed, calculate_freshness_score raises.
C19_MalformedTimestampRaises ==
    (/\ pc = "fresh"
     /\ \/ Malformed(call.claim.verified_at)
        \/ Malformed(call.claim.created_at)
        \/ Malformed(call.claim.expiration_date))
    => ret.raised

\* C20 - An expired claim is never boosted: with a verification time and an
\* expiration time earlier than the reference time, calculate_time_decay
\* returns MIN_FRESHNESS_SCORE at every age.
C20_ExpiredNeverBoosted ==
    (/\ pc = "decayed"
     /\ call.verified_at # None
     /\ Expired(call.expiration_date, call.reference_time))
    => ret.freshness = MIN_FRESHNESS_SCORE

\* verified yesterday, expired half a day before the reference time
C20_Witness ==
    /\ pc = "decayed"
    /\ call.verified_at = DateTime(Day(Today - 1), FALSE)
    /\ call.expiration_date = DateTime(Day(Today), TRUE)
    /\ call.reference_time = DateTime(Day(Today) + 1, FALSE)
    /\ ret.freshness = MIN_FRESHNESS_SCORE

Sign(a) == IF a > 0 THEN 1 ELSE IF a < 0 THEN 0 - 1 ELSE 0

\* how two scores with the same denominator compare: 1 when x is the
\* greater, -1 when y is, 0 when they are equal
ScoreOrder(x, y) == Sign(x.num - y.num) * Sign(x.den)

Scaled(weights, c) == [i \in 1..3 |-> c * weights[i]]

CombinedScoreOf(scores, weights) ==
    calculate_combined_score(scores[1], scores[2], scores[3],
                             weights[1], weights[2], weights[3])

ValidWeights(weights) ==
    /\ \A i \in 1..3 : weights[i] >= 0
    /\ \E i \in 1..3 : weights[i] > 0

\* C14 - Weight normalization: with non-negative weights that are not all
\* zero, multiplying the three weights by the same positive factor leaves the
\* order in which the combined score puts any two candidates unchanged.
C14_ScalingInvariant ==
    (pc = "scored" /\ ValidWeights(call.weights))
    => \A c \in ScaleValues, other \in [1..3 -> ScoreValues] :
          /\ ~ret.score.raised
          /\ ~CombinedScoreOf(call.scores, Scaled(call.weights, c)).raised
          /\ ScoreOrder(ret.score, CombinedScoreOf(other, call.weights))
             = ScoreOrder(CombinedScoreOf(call.scores, Scaled(call.weights, c)),
                          CombinedScoreOf(other, Scaled(call.weights, c)))

\* weights summing to 1.0003 are used as they are, their double is normalised
C14_Witness ==
    /\ pc = "scored"
    /\ call.weights = <<4003, 4000, 2000>>
    /\ call.scores = <<50, 0, 0>>
    /\ ret.score = Score(200150, WeightOne)
    /\ CombinedScoreOf(call.scores, Scaled(call.weights, 2)) = Score(400300, 20006)
    /\ ScoreOrder(ret.score, CombinedScoreOf(<<0, 0, 100>>, call.weights)) = 1

ClaimIdOrder(claim_id) == IF claim_id = "c1" THEN 1 ELSE 2

\* x may stand before y: higher final score, then higher freshness, then
\* lower claim identifier
RanksBefore(x, y) ==
    \/ x.final_score.num > y.final_score.num
    \/ /\ x.final_score.num = y.final_score.num
       /\ \/ x.freshness_score > y.freshness_score
          \/ /\ x.freshness_score = y.freshness_score
             /\ ClaimIdOrder(x.claim.claim_id) <= ClaimIdOrder(y.claim.claim_id)

\* C15 - rank_claims returns its candidates by final score descending, equal
\* final scores by freshness descending and then by claim identifier
\* ascending.
C15_DeterministicOrder ==
    (pc = "ranked" /\ ~ret.outcome.raised)
    => \A i, j \in 1..Len(ret.outcome.ranked) :
          i < j => RanksBefore(ret.outcome.ranked[i], ret.outcome.ranked[j])

\* C18 - InvalidConfiguration: calculate_combined_score with a negative weight
\* or with three zero weights fails instead of returning a score.
C18_InvalidWeightsRejected ==
    (pc = "scored" /\ ~ValidWeights(call.weights)) => ret.score.raised

----------------------------------------------------------------------------
(* The query pipelines: services/rag_service.py RAGService.query and       *)
(* utils/rag_engine.py simple_rag.  The documents list is parallel to the  *)
(* metadata list.  A collaborator call (document encoding, vector search,  *)
(* text generation) is a step of its own whose outcome, success or         *)
(* failure, the environment chooses; invoked records the calls of the      *)
(* current request.                                                        *)

DEFAULT_TOP_K == 5

\* answers that are fixed messages
NoDocumentsAnswer == "no data in the system"
NoAccessAnswer == "no data of the target you may access"
NoMatchAnswer == "no information matching the question"
\* the text the generator produced, and the message built from its exception
GeneratedAnswer == "generated text"
ErrorTextAnswer == "error calling the LLM API"

\* progress of a query: the answer once there is one, the indices the filter
\* allowed, the indices of the documents put in the context
Progress(answer, allowed_indices, contexts) ==
    [kind |-> "query", answer |-> answer, allowed_indices |-> allowed_indices,
     contexts |-> contexts]

\* the mutant goes on to the search with an empty list of allowed indices
RAGService_query_filter_no_short_circuit(md, target_user_id, viewer_id, viewer_role) ==
    IF md = <<>> THEN Progress(NoDocumentsAnswer, <<>>, <<>>)
    ELSE Progress(Absent,
                  RAGService__filter_by_access(md, target_user_id, viewer_id, viewer_role),
                  <<>>)

\* RAGService.query up to its first collaborator call
RAGService_query_filter(md, target_user_id, viewer_id, viewer_role) ==
    IF md = <<>> THEN Progress(NoDocumentsAnswer, <<>>, <<>>)
    ELSE LET allowed_indices ==
                 RAGService__filter_by_access(md, target_user_id, viewer_id, viewer_role)
         IN  IF allowed_indices = <<>> THEN Progress(NoAccessAnswer, <<>>, <<>>)
             ELSE Progress(Absent, allowed_indices, <<>>)

\* simple_rag up to its first collaborator call
simple_rag_filter(md, target_user_id, viewer_id, viewer_role) ==
    IF md = <<>> THEN Progress(NoDocumentsAnswer, <<>>, <<>>)
    ELSE LET allowed_indices ==
                 gatekeeper_filter(md, target_user_id, viewer_id, viewer_role, NoNumber)
         IN  IF allowed_indices = <<>> THEN Progress(NoAccessAnswer, <<>>, <<>>)
             ELSE Progress(Absent, allowed_indices, <<>>)

\* the k nearest allowed documents, k = min(top_k, len(allowed_indices)): the
\* index returns k different positions of the sub-index, in any order
SearchResults(allowed_indices, top_k) ==
    LET k == Min(top_k, Len(allowed_indices))
    IN  {f \in [1..k -> 0..(Len(allowed_indices) - 1)] :
            \A i, j \in 1..k : i # j => f[i] # f[j]}

\* the mutant takes a position of the sub-index for an index of the documents
BuildContext_raw_positions(allowed_indices, indices) ==
    [i \in 1..Len(indices) |-> indices[i]]

\* the context: actual_idx = allowed_indices[idx] for every position found
BuildContext(allowed_indices, indices) ==
    [i \in 1..Len(indices) |-> allowed_indices[indices[i] + 1]]

\* outcome of the generation step: an answer, or an exception
Answered(answer) == [raised |-> FALSE, answer |-> answer]
LLMError == [raised |-> TRUE, answer |-> Absent]

\* LLMService.generate: main client, then fallback, then LLMError
LLMService_generate(ok) == IF ok THEN Answered(GeneratedAnswer) ELSE LLMError

\* services/llm_service.py generate_response: the last exception is caught and
\* its text is returned
llm_service_generate_response(ok) ==
    IF ok THEN Answered(GeneratedAnswer) ELSE Answered(ErrorTextAnswer)

\* utils/rag_engine.py generate_response: the exception is caught and its text
\* is returned
rag_engine_generate_response(ok) ==
    IF ok THEN Answered(GeneratedAnswer) ELSE Answered(ErrorTextAnswer)

QueryCall(op, target_user_id, viewer_id, viewer_role, top_k, has_llm_service) ==
    [op |-> op, target_user_id |-> target_user_id, viewer_id |-> viewer_id,
     viewer_role |-> viewer_role, top_k |-> top_k, has_llm_service |-> has_llm_service]

Invocation(collaborator, ok) == [collaborator |-> collaborator, ok |-> ok]

\* RAGService.query, lines 132-157: no documents, the filter, nothing allowed
RAGServiceQuery(target_user_id, viewer_id, viewer_role, top_k, has_llm_service) ==
    /\ pc = "idle"
    /\ call' = QueryCall("RAGService.query", target_user_id, viewer_id, viewer_role,
                         top_k, has_llm_service)
    /\ ret' = RAGService_query_filter(metadata, target_user_id, viewer_id, viewer_role)
    /\ pc' = IF ret'.answer # Absent THEN "answered" ELSE "allowed"
    /\ UNCHANGED <<graph, graphUp, metadata, scope, invoked,
                   claimNodes, claimsFile, cache>>

\* simple_rag, lines 164-172
SimpleRag(target_user_id, viewer_id, viewer_role, top_k) ==
    /\ pc = "idle"
    /\ call' = QueryCall("simple_rag", target_user_id, viewer_id, viewer_role,
                         top_k, FALSE)
    /\ ret' = simple_rag_filter(metadata, target_user_id, viewer_id, viewer_role)
    /\ pc' = IF ret'.answer # Absent THEN "answered" ELSE "allowed"
    /\ UNCHANGED <<graph, graphUp, metadata, scope, invoked,
                   claimNodes, claimsFile, cache>>

\* RAGService.query, lines 159-166: the documents are encoded; a failure
\* leaves the method
EncodeDocuments(ok) ==
    /\ pc = "allowed"
    /\ call.op = "RAGService.query"
    /\ invoked' = Append(invoked, Invocation("encode", ok))
    /\ pc' = IF ok THEN "encoded" ELSE "raised"
    /\ UNCHANGED <<graph, graphUp, metadata, call, scope, ret,
                   claimNodes, claimsFile, cache>>

\* _search_and_build_context / search_similar and the context loop; a failure
\* leaves the method; RAGService.query answers at once when no context came
SearchSimilar(ok, indices) ==
    /\ \/ pc = "encoded" /\ call.op = "RAGService.query"
       \/ pc = "allowed" /\ call.op = "simple_rag"
    /\ invoked' = Append(invoked, Invocation("search", ok))
    /\ IF ~ok
       THEN pc' = "raised" /\ ret' = ret
       ELSE LET contexts == BuildContext(ret.allowed_indices, indices)
            IN  IF contexts = <<>> /\ call.op = "RAGService.query"
                THEN /\ pc' = "answered"
                     /\ ret' = Progress(NoMatchAnswer, ret.allowed_indices, <<>>)
                ELSE /\ pc' = "searched"
                     /\ ret' = Progress(Absent, ret.allowed_indices, contexts)
    /\ UNCHANGED <<graph, graphUp, metadata, call, scope, claimNodes, claimsFile, cache>>

\* the prompt is built and the generator is called: RAGService.query uses its
\* llm service when it has one and generate_response otherwise, simple_rag its
\* own generate_response
Generate(ok) ==
    /\ pc = "searched"
    /\ invoked' = Append(invoked, Invocation("generate", ok))
    /\ LET outcome ==
               IF call.op = "simple_rag" THEN rag_engine_generate_response(ok)
               ELSE IF call.has_llm_service THEN LLMService_generate(ok)
               ELSE llm_service_generate_response(ok)
       IN  /\ pc' = IF outcome.raised THEN "raised" ELSE "answered"
           /\ ret' = Progress(outcome.answer, ret.allowed_indices, ret.contexts)
    /\ UNCHANGED <<graph, graphUp, metadata, call, scope, claimNodes, claimsFile, cache>>

\* documents of u1 (public, public and attested, private, below the confidence
\* floor) and of u2
QueryMetaValues ==
    {Meta(BaseOwner, BaseAccess, BaseTrust),
     Meta(BaseOwner, BaseAccess, <<"attested", "True", 90>>),
     Meta(BaseOwner, <<"private", <<"friend">>>>, BaseTrust),
     Meta(BaseOwner, BaseAccess, <<"revoked", "False", 0>>),
     Meta(<<"u2", "u2">>, BaseAccess, BaseTrust)}

TopKValues == {1, DEFAULT_TOP_K}

NextQuery ==
    \/ \E m \in QueryMetaValues : LoadDocument(m)
    \/ \E t \in TargetValues, v \in Users, r \in RoleValues, k \in TopKValues,
          s \in BOOLEAN : RAGServiceQuery(t, v, r, k, s)
    \/ \E t \in TargetValues, v \in Users, r \in RoleValues, k \in TopKValues :
          SimpleRag(t, v, r, k)
    \/ \E ok \in BOOLEAN : EncodeDocuments(ok)
    \/ /\ pc \in {"allowed", "encoded"}
       /\ \E ok \in BOOLEAN, indices \in SearchResults(ret.allowed_indices, call.top_k) :
             SearchSimilar(ok, indices)
    \/ \E ok \in BOOLEAN : Generate(ok)
    \/ Return

SpecQuery == Init /\ [][NextQuery]_vars

QueryOps == {"RAGService.query", "simple_rag"}

\* the filter of the running pipeline lets no document of the target through
NothingAllowed ==
    IF call.op = "simple_rag"
    THEN gatekeeper_filter(metadata, call.target_user_id, call.viewer_id,
                           call.viewer_role, NoNumber) = <<>>
    ELSE RAGService__filter_by_access(metadata, call.target_user_id, call.viewer_id,
                                      call.viewer_role) = <<>>

\* C16 - EMPTY short-circuit: in a run in which the target owns no document
\* or the filter lets none through, the pipeline answers with the fixed
\* no-information message and calls no collaborator: neither the vector
\* search nor the generator is invoked.
C16_EmptyShortCircuit ==
    (pc # "idle" /\ call.op \in QueryOps /\ NothingAllowed)
    => /\ pc = "answered"
       /\ ret.answer \in {NoDocumentsAnswer, NoAccessAnswer}
       /\ invoked = <<>>

\* u1 has documents, a stranger may see none of them
C16_Witness ==
    /\ pc = "answered"
    /\ call.op = "RAGService.query"
    /\ call.target_user_id = "u1"
    /\ call.viewer_id = "u3"
    /\ metadata = <<Meta(BaseOwner, <<"private", <<"friend">>>>, BaseTrust),
                    Meta(BaseOwner, BaseAccess, <<"revoked", "False", 0>>)>>
    /\ ret.answer = NoAccessAnswer
    /\ invoked = <<>>

\* C17 - Error propagation: when the document encoding, the vector search or
\* the generator fails during a query, the query ends by raising, not with an
\* answer.
C17_ErrorsPropagate ==
    (/\ pc \in {"answered", "raised"}
     /\ call.op \in QueryOps
     /\ \E i \in 1..Len(invoked) : ~invoked[i].ok)
    => pc = "raised"

\* the final score the combined ranker gives a document found with the given
\* similarity: the confidence of its metadata (0.3 when it has none) and,
\* the metadata holding no timestamp, the freshness of a claim without one
DocumentFinalScore(m, semantic_score) ==
    calculate_combined_score(semantic_score, GetNumber(m.confidence_score, 30),
                             calculate_time_decay(None, None, DateTime(Day(Today), FALSE)),
                             SEMANTIC_WEIGHT, CONFIDENCE_WEIGHT, FRESHNESS_WEIGHT)

\* similarities of the documents found, nearest first
SimilarityOrders(n) ==
    {sem \in [1..n -> SemanticValues] : \A i, j \in 1..n : i < j => sem[i] >= sem[j]}

\* C21 - A query that found documents has ranked them before the generator is
\* called: whatever similarities the search found them with (nearest first),
\* the contexts are in descending order of the combined final score of
\* semantic similarity, confidence and freshness.
C21_ContextsRankedByFinalScore ==
    pc = "searched"
    => \A sem \in SimilarityOrders(Len(ret.contexts)) :
          \A i, j \in 1..Len(ret.contexts) :
             i < j => DocumentFinalScore(metadata[ret.contexts[i] + 1], sem[i]).num
                      >= DocumentFinalScore(metadata[ret.contexts[j] + 1], sem[j]).num

\* the indices the filter of the running pipeline lets through
FilterResult ==
    IF call.op = "simple_rag"
    THEN gatekeeper_filter(metadata, call.target_user_id, call.viewer_id,
                           call.viewer_role, NoNumber)
    ELSE RAGService__filter_by_access(metadata, call.target_user_id, call.viewer_id,
                                      call.viewer_role)

\* C22 - Search is restricted to the filtered candidates: the search of a
\* query runs over the indices its filter let through, every context item is
\* one of them, and at most min(top_k, number of allowed indices) items are
\* in the context.
C22_SearchWithinAllowed ==
    (pc \in {"searched", "answered", "raised"} /\ call.op \in QueryOps
        /\ \E i \in 1..Len(invoked) : invoked[i].collaborator = "search")
    => /\ ret.allowed_indices = FilterResult
       /\ Range(ret.contexts) \subseteq Range(FilterResult)
       /\ Len(ret.contexts) <= Min(call.top_k, Len(FilterResult))

\* the second document is the only one of the target: the search finds
\* position 0 of the sub-index, the context holds document 1
C22_Witness ==
    /\ pc = "searched"
    /\ call.op = "RAGService.query"
    /\ call.target_user_id = "u1"
    /\ call.viewer_id = "u3"
    /\ metadata = <<Meta(<<"u2", "u2">>, BaseAccess, BaseTrust),
                    Meta(BaseOwner, BaseAccess, BaseTrust)>>
    /\ ret.allowed_indices = <<1>>
    /\ ret.contexts = <<1>>

\* C23 - In a ranking pass the confidence component of a revoked claim is 0.0
\* whatever confidence is stored on the claim: its final score is
\* wSem * semantic + wFresh * freshness.
C23_RevokedConfidenceZero ==
    (pc = "ranked" /\ ~ret.outcome.raised)
    => \A i \in 1..Len(ret.outcome.ranked) :
          LET x == ret.outcome.ranked[i]
          IN  x.claim.status = "revoked"
              => /\ x.confidence_score = 0
                 /\ x.final_score = Score(SEMANTIC_WEIGHT * x.semantic_score
                                              + FRESHNESS_WEIGHT * x.freshness_score,
                                          WeightOne)

----------------------------------------------------------------------------
(* Direction of the relationships and the two access decision paths,       *)
(* checked under Spec                                                      *)

\* the edges of the graph that join the two users, in either direction
EdgesBetween(a, b) ==
    {e \in graph : (e[1] = a /\ e[3] = b) \/ (e[1] = b /\ e[3] = a)}

\* C25 - RECRUITING is directional: with the graph reachable, an edge
\* r -RECRUITING-> c unlocks hr_sensitive for viewer r and target c; for
\* viewer c and target r, no other edge joining them, the scope unlocks
\* exactly {public}.  A FRIEND or COLLEAGUE edge unlocks its tag in both
\* directions.
C25_RecruitingDirectional ==
    (Scoped /\ call.op = "rebac" /\ graphUp /\ call.viewer_id # call.target_id)
    => /\ EdgesBetween(call.viewer_id, call.target_id)
              = {<<call.target_id, "RECRUITING", call.viewer_id>>}
          => scope.allowed_tags = {"public"}
       /\ <<call.viewer_id, "RECRUITING", call.target_id>> \in graph
          => "hr_sensitive" \in scope.allowed_tags
       /\ (\E e \in EdgesBetween(call.viewer_id, call.target_id) : e[2] = "FRIEND")
          => "friend" \in scope.allowed_tags
       /\ (\E e \in EdgesBetween(call.viewer_id, call.target_id) : e[2] = "COLLEAGUE")
          => "internal" \in scope.allowed_tags

\* C26 - A claim without access_tags (the key missing or its list empty) whose
\* legacy access_level is private is passed by filter_claims_by_access only
\* under a SELF scope.
C26_LegacyPrivateOnlySelf ==
    pc = "filtered"
    => \A i \in 1..Len(ret.accessible_claims) :
          (/\ ret.accessible_claims[i].access_tags \in {NoList, <<>>}
           /\ ret.accessible_claims[i].access_level = "private")
          => scope.is_self

\* the WHERE clause of get_claims_visible_to_user for one claim node: FRIEND
\* and COLLEAGUE are matched in either direction, RECRUITING from the viewer
\* to the target; IN over a missing tag list is null and matches nothing
Neo4jClient_claim_visible(claim, viewer_id, target_user_id) ==
    LET tags == Range(GetList(claim.access_tags, <<>>))
        is_self == viewer_id = target_user_id
        is_friend == <<viewer_id, "FRIEND", target_user_id>> \in graph
                     \/ <<target_user_id, "FRIEND", viewer_id>> \in graph
        is_colleague == <<viewer_id, "COLLEAGUE", target_user_id>> \in graph
                        \/ <<target_user_id, "COLLEAGUE", viewer_id>> \in graph
        is_recruiting == <<viewer_id, "RECRUITING", target_user_id>> \in graph
    IN  \/ is_self
        \/ "public" \in tags
        \/ is_friend /\ "friend" \in tags
        \/ is_colleague /\ "internal" \in tags
        \/ is_recruiting /\ "hr_sensitive" \in tags

\* the claims of the target the query returns (their order left aside)
Neo4jClient_get_claims_visible_to_user(claims, viewer_id, target_user_id) ==
    {claim \in Range(claims) : Neo4jClient_claim_visible(claim, viewer_id, target_user_id)}

\* C29 - The access decision paths agree: with the graph reachable, for every
\* graph, viewer, target and claims of the target, determine_access_scope
\* followed by filter_claims_by_access passes exactly the claims the rule of
\* get_claims_visible_to_user matches, claims with empty tags and claims with
\* tags outside the four known tags included.
C29_DecisionPathsAgree ==
    (pc = "filtered" /\ graphUp)
    => Range(ret.accessible_claims)
       = Neo4jClient_get_claims_visible_to_user(ret.claims, call.viewer_id,
                                                call.target_id)

----------------------------------------------------------------------------
(* The owner and the other viewers of the gatekeeper, checked under SpecGate *)

\* C27 - Owner access: when the viewer is the target, gatekeeper_filter
\* returns the index of every document the target owns, for every access
\* level and viewer role.
C27_OwnerSeesAll ==
    (pc = "gated" /\ call.op = "gatekeeper_filter"
        /\ call.viewer_id = call.target_user_id)
    => \A i \in 0..(Len(metadata) - 1) :
          FirstTruthy(metadata[i + 1].user_id, metadata[i + 1].source)
              = call.target_user_id
          => i \in ReturnedIndices

\* the result of the filter of the current call for another viewer
GateResultFor(viewer_id) ==
    CASE call.op = "gatekeeper_filter" ->
             gatekeeper_filter(metadata, call.target_user_id, viewer_id,
                               call.viewer_role, call.min_confidence)
      [] call.op = "gatekeeper_filter_with_ranking" ->
             LET ranked == gatekeeper_filter_with_ranking(
                               metadata, call.target_user_id, viewer_id,
                               call.viewer_role)
             IN  [k \in 1..Len(ranked) |-> ranked[k][1]]
      [] OTHER ->
             RAGService__filter_by_access(metadata, call.target_user_id, viewer_id,
                                          call.viewer_role)

\* C30 - For one metadata list, target, viewer role and minimum confidence,
\* the result of the gatekeeper filter for a viewer other than the target
\* does not depend on who the viewer is: every other viewer that is not the
\* target gets the same list of indices.
C30_ViewerIdentityIrrelevant ==
    (pc = "gated" /\ call.viewer_id # call.target_user_id)
    => \A v \in Users \ {call.target_user_id} :
          GateResultFor(v) = ret.allowed_indices

\* a recruiter that is not the target gets the verified recruiter-level
\* document and not the unverified one
C30_Witness ==
    /\ pc = "gated"
    /\ call.op = "gatekeeper_filter"
    /\ call.target_user_id = "u1"
    /\ call.viewer_id = "u2"
    /\ call.viewer_role = "Recruiter"
    /\ metadata = <<Meta(BaseOwner, <<"recruiter", <<"hr_sensitive">>>>,
                         <<"revoked", "False", 0>>),
                    Meta(BaseOwner, <<"recruiter", <<"hr_sensitive">>>>,
                         <<"attested", "True", 90>>)>>
    /\ ret.allowed_indices = <<1>>

----------------------------------------------------------------------------
(* services/claim_service.py: the claims kept as Claim nodes of the graph. *)
(* A claim_id is the position of the node in claimNodes (the uuid of the   *)
(* code is a fresh identifier); a node keeps its status, its stored        *)
(* confidence and the number of its SUPPORTED_BY edges.                    *)

MaxNodes == 2       \* most Claim nodes created
MaxEvidence == 2    \* most SUPPORTED_BY edges of one claim

\* the Evidence nodes of the graph that a new claim can be linked to
EvidenceNodes == {"ev1"}

ClaimStatusValues == {"pending", "self_declared", "attested", "revoked"}

ClaimNode(status, confidence_score, evidence) ==
    [status |-> status, confidence_score |-> confidence_score, evidence |-> evidence]

\* outcome of a service method: the value returned, or an exception
ServiceReturned(value) == [kind |-> "service", raised |-> FALSE, value |-> value]
ServiceRaised == [kind |-> "service", raised |-> TRUE, value |-> FALSE]

\* _create_claim_in_db: the node, and one SUPPORTED_BY edge for every
\* evidence id that matches an Evidence node
ClaimService__create_claim_in_db(confidence, evidence_ids) ==
    Append(claimNodes,
           ClaimNode("self_declared", confidence,
                     Cardinality({i \in 1..Len(evidence_ids) :
                                     evidence_ids[i] \in EvidenceNodes})))

\* create_claim: the confidence is computed from evidence_ids alone; the
\* write to the graph has no handler
ClaimServiceCreateClaim(evidence_ids, has_client) ==
    /\ pc = "idle"
    /\ Len(claimNodes) < MaxNodes
    /\ call' = [op |-> "create_claim", claim_id |-> Len(claimNodes) + 1,
                evidence_ids |-> evidence_ids, has_client |-> has_client]
    /\ LET confidence == calculate_confidence(evidence_ids # <<>>, FALSE, FALSE)
       IN  IF ~has_client
           THEN /\ claimNodes' = claimNodes
                /\ ret' = ServiceReturned(confidence)
                /\ pc' = "serviced"
           ELSE IF ~graphUp
           THEN /\ claimNodes' = claimNodes
                /\ ret' = ServiceRaised
                /\ pc' = "raised"
           ELSE /\ claimNodes' = ClaimService__create_claim_in_db(confidence, evidence_ids)
                /\ ret' = ServiceReturned(confidence)
                /\ pc' = "serviced"
    /\ UNCHANGED <<graph, graphUp, metadata, scope, invoked, claimsFile, cache>>

\* the SET of update_claim_status on the node the MATCH finds: the confidence
\* is computed from the new status alone
update_claim_status(nodes, claim_id, new_status) ==
    IF claim_id \in 1..Len(nodes)
    THEN [nodes EXCEPT ![claim_id] =
             ClaimNode(new_status,
                       calculate_confidence(FALSE, new_status = "attested", FALSE),
                       nodes[claim_id].evidence)]
    ELSE nodes

\* update_claim_status: ValidationError for a value that is no ClaimStatus,
\* True without a client, False when the query fails
ClaimServiceUpdateClaimStatus(claim_id, new_status, has_client) ==
    /\ pc = "idle"
    /\ call' = [op |-> "update_claim_status", claim_id |-> claim_id,
                new_status |-> new_status, has_client |-> has_client]
    /\ IF new_status \notin ClaimStatusValues
       THEN /\ claimNodes' = claimNodes
            /\ ret' = ServiceRaised
            /\ pc' = "raised"
       ELSE /\ claimNodes' = IF has_client /\ graphUp
                             THEN update_claim_status(claimNodes, claim_id, new_status)
                             ELSE claimNodes
            /\ ret' = ServiceReturned(~has_client \/ graphUp)
            /\ pc' = "serviced"
    /\ UNCHANGED <<graph, graphUp, metadata, scope, invoked, claimsFile, cache>>

\* the query of add_evidence_to_claim on the node the MATCH finds: an Evidence
\* node and its edge are created, the confidence is 0.9 for an attested claim
\* and 0.5 otherwise
add_evidence_to_claim(nodes, claim_id) ==
    IF claim_id \in 1..Len(nodes)
    THEN [nodes EXCEPT ![claim_id] =
             ClaimNode(nodes[claim_id].status,
                       IF nodes[claim_id].status = "attested" THEN 90 ELSE 50,
                       nodes[claim_id].evidence + 1)]
    ELSE nodes

\* add_evidence_to_claim: True without a client, False when the query fails
ClaimServiceAddEvidenceToClaim(claim_id, has_client) ==
    /\ pc = "idle"
    /\ claim_id \in 1..Len(claimNodes) => claimNodes[claim_id].evidence < MaxEvidence
    /\ call' = [op |-> "add_evidence_to_claim", claim_id |-> claim_id,
                has_client |-> has_client]
    /\ claimNodes' = IF has_client /\ graphUp
                     THEN add_evidence_to_claim(claimNodes, claim_id)
                     ELSE claimNodes
    /\ ret' = ServiceReturned(~has_client \/ graphUp)
    /\ pc' = "serviced"
    /\ UNCHANGED <<graph, graphUp, metadata, scope, invoked, claimsFile, cache>>

EvidenceIdValues == {<<>>, <<"ev1">>}
NewStatusValues == ClaimStatusValues \cup {"verified"}

NextClaims ==
    \/ ConnectionLost
    \/ ConnectionRestored
    \/ \E e \in EvidenceIdValues, c \in BOOLEAN : ClaimServiceCreateClaim(e, c)
    \/ \E id \in 1..MaxNodes, s \in NewStatusValues, c \in BOOLEAN :
          ClaimServiceUpdateClaimStatus(id, s, c)
    \/ \E id \in 1..MaxNodes, c \in BOOLEAN : ClaimServiceAddEvidenceToClaim(id, c)
    \/ Return

SpecClaims == Init /\ [][NextClaims]_vars

\* C24 - After any sequence of create_claim (with or without evidence),
\* add_evidence_to_claim and update_claim_status, the confidence stored on
\* every claim is calculate_confidence of the evidence and attestation the
\* claim has now: no operation loses the contribution of evidence or
\* attestation recorded earlier.
C24_StoredConfidenceCurrent ==
    \A claim_id \in 1..Len(claimNodes) :
        claimNodes[claim_id].confidence_score
            = calculate_confidence(claimNodes[claim_id].evidence > 0,
                                   claimNodes[claim_id].status = "attested", FALSE)

----------------------------------------------------------------------------
(* repositories/json_repository.py and repositories/claim_repository.py:   *)
(* the claims kept in a JSON file.  claimsFile is what _load_data reads    *)
(* from the file; cache is _cache.  The dicts a read returns are the dicts *)
(* of the cache (list.copy() is shallow), so a change made to one of them  *)
(* is a change of the cache.  The updated_at and verified_at stamps are    *)
(* left out.                                                               *)

MaxStored == 2      \* most claim dicts in the file

StoredClaim(claim_id, user_id, status, confidence_score, eas_uid) ==
    [claim_id |-> claim_id, user_id |-> user_id, status |-> status,
     confidence_score |-> confidence_score, eas_uid |-> eas_uid]

\* how a write to the file ends: written; failed before the file was opened;
\* failed after open(..., 'w') emptied the file, which then loads as []
SaveOutcomes == {"saved", "failed", "truncated"}

FileAfterSave(data, outcome) ==
    CASE outcome = "saved" -> data
      [] outcome = "truncated" -> <<>>
      [] OTHER -> claimsFile

\* get_all: the cache when there is one, the file otherwise
JSONRepository_get_all == IF cache.loaded THEN cache.items ELSE claimsFile

\* position of the first item with the id, 0 when there is none
FirstWithId(items, entity_id) ==
    IF \E i \in 1..Len(items) : items[i].claim_id = entity_id
    THEN CHOOSE i \in 1..Len(items) :
             /\ items[i].claim_id = entity_id
             /\ \A j \in 1..(i - 1) : items[j].claim_id # entity_id
    ELSE 0

\* outcome of a repository method: the file and the cache it leaves, and the
\* value it returns or the exception it raises
RepoOutcome(file, newCache, raised, value) ==
    [file |-> file, cache |-> newCache, raised |-> raised, value |-> value]

\* create: the entity is appended to the list read from the file, whatever
\* its id; RuntimeError when the list cannot be saved
JSONRepository_create(entity, outcome) ==
    LET data == Append(claimsFile, entity)
    IN  RepoOutcome(FileAfterSave(data, outcome),
                    IF outcome = "saved" THEN Cached(data) ELSE cache,
                    outcome # "saved", entity.claim_id)

\* claim[key] = value for every key of changes
Assigned(claim, changes) ==
    [key \in DOMAIN claim |-> IF key \in DOMAIN changes THEN changes[key] ELSE claim[key]]

\* get_by_id, the assignments made to the dict it returns, and update: the
\* first item of the file with the id is replaced by the changed dict.  False
\* when get_by_id finds nothing, DataNotFoundError when the file has no item
\* with the id, RuntimeError when the list cannot be saved
ClaimRepository_change(claim_id, changes, outcome) ==
    LET items == JSONRepository_get_all
        k == FirstWithId(items, claim_id)
        i == FirstWithId(claimsFile, claim_id)
    IN  IF k = 0 THEN RepoOutcome(claimsFile, Cached(items), FALSE, FALSE)
        ELSE LET claim == Assigned(items[k], changes)
                 aliased == Cached([items EXCEPT ![k] = claim])
                 data == [claimsFile EXCEPT ![i] = claim]
             IN  IF i = 0 THEN RepoOutcome(claimsFile, aliased, TRUE, FALSE)
                 ELSE IF outcome = "saved"
                 THEN RepoOutcome(data, Cached(data), FALSE, TRUE)
                 ELSE RepoOutcome(FileAfterSave(data, outcome), aliased, TRUE, FALSE)

\* update_status: the confidence given, or 0.9 for the status attested when
\* none is given
ClaimRepository_update_status(claim_id, status, confidence_score, outcome) ==
    ClaimRepository_change(
        claim_id,
        IF confidence_score # NoNumber
        THEN [status |-> status, confidence_score |-> confidence_score]
        ELSE IF status = "attested"
        THEN [status |-> status, confidence_score |-> with_attestation]
        ELSE [status |-> status],
        outcome)

ClaimRepository_add_attestation(claim_id, eas_uid, outcome) ==
    ClaimRepository_change(
        claim_id,
        [eas_uid |-> eas_uid, status |-> "attested", confidence_score |-> with_attestation],
        outcome)

ClaimRepository_revoke_claim(claim_id, outcome) ==
    ClaimRepository_update_status(claim_id, "revoked", 0, outcome)

\* get_claims_for_rag: the claims of the user, as get_all returns them, at or
\* above the minimum confidence and not revoked
ClaimRepository_get_claims_for_rag(user_id, min_confidence) ==
    LET min == IF min_confidence = NoNumber THEN min_for_rag ELSE min_confidence
    IN  SelectSeq(JSONRepository_get_all,
                  LAMBDA claim : /\ claim.user_id = user_id
                                 /\ GetNumber(claim.confidence_score, 0) >= min
                                 /\ claim.status # "revoked")

RepoCall(op, claim_id) == [op |-> op, claim_id |-> claim_id, before |-> claimsFile]

\* the method leaves the file and the cache of its outcome
RepoStep(outcome) ==
    /\ claimsFile' = outcome.file
    /\ cache' = outcome.cache
    /\ ret' = [kind |-> "repo", raised |-> outcome.raised, value |-> outcome.value]
    /\ pc' = IF outcome.raised THEN "raised" ELSE "stored"
    /\ UNCHANGED <<graph, graphUp, metadata, scope, invoked, claimNodes>>

RepositoryCreate(entity, outcome) ==
    /\ pc = "idle"
    /\ Len(claimsFile) < MaxStored
    /\ call' = RepoCall("create", entity.claim_id)
    /\ RepoStep(JSONRepository_create(entity, outcome))

RepositoryUpdateStatus(claim_id, status, confidence_score, outcome) ==
    /\ pc = "idle"
    /\ call' = RepoCall("update_status", claim_id)
    /\ RepoStep(ClaimRepository_update_status(claim_id, status, confidence_score, outcome))

RepositoryAddAttestation(claim_id, eas_uid, outcome) ==
    /\ pc = "idle"
    /\ call' = RepoCall("add_attestation", claim_id)
    /\ RepoStep(ClaimRepository_add_attestation(claim_id, eas_uid, outcome))

RepositoryRevokeClaim(claim_id, outcome) ==
    /\ pc = "idle"
    /\ call' = RepoCall("revoke_claim", claim_id)
    /\ RepoStep(ClaimRepository_revoke_claim(claim_id, outcome))

\* get_claims_for_rag reads through get_all, which fills the cache
RepositoryGetClaimsForRag(user_id, min_confidence) ==
    /\ pc = "idle"
    /\ call' = [op |-> "get_claims_for_rag", user_id |-> user_id,
                min_confidence |-> min_confidence, before |-> claimsFile]
    /\ ret' = [kind |-> "repo", raised |-> FALSE,
               value |-> ClaimRepository_get_claims_for_rag(user_id, min_confidence)]
    /\ cache' = Cached(JSONRepository_get_all)
    /\ pc' = "stored"
    /\ UNCHANGED <<graph, graphUp, metadata, scope, invoked, claimNodes, claimsFile>>

ClaimIdValues == {"c1", "c2"}

\* a self-declared claim of u1 under either id, and one of u2
StoredClaimValues ==
    {StoredClaim(id, "u1", "self_declared", base_self_declared, Absent) :
        id \in ClaimIdValues}
    \cup {StoredClaim("c2", "u2", "self_declared", base_self_declared, Absent)}

\* (status, confidence_score) of update_status: attested without a confidence,
\* self-declared with the confidence of evidence
StatusUpdateValues == {<<"attested", NoNumber>>, <<"self_declared", with_evidence>>}

NextRepository ==
    \/ /\ pc = "idle"
       /\ \E entity \in StoredClaimValues, o \in SaveOutcomes : RepositoryCreate(entity, o)
    \/ /\ pc = "idle"
       /\ \E id \in ClaimIdValues, u \in StatusUpdateValues, o \in SaveOutcomes :
             RepositoryUpdateStatus(id, u[1], u[2], o)
    \/ /\ pc = "idle"
       /\ \E id \in ClaimIdValues, o \in SaveOutcomes : RepositoryAddAttestation(id, "0xa1", o)
    \/ /\ pc = "idle"
       /\ \E id \in ClaimIdValues, o \in SaveOutcomes : RepositoryRevokeClaim(id, o)
    \/ \E u \in {"u1", "u2"}, c \in {NoNumber, 0} : RepositoryGetClaimsForRag(u, c)
    \/ Return

SpecRepository == Init /\ [][NextRepository]_vars

\* C28 - Revocation is a status transition, not a removal: for every state of
\* the repository, once revoke_claim(c) has returned True the stored claim
\* identifiers are those stored before, every stored claim with the id c has
\* the status revoked and the confidence 0.0, every other stored claim is as
\* it was, and get_claims_for_rag returns no claim with the id c, for any user
\* and any minimum confidence.
C28_RevocationKeepsClaims ==
    (pc = "stored" /\ call.op = "revoke_claim" /\ ret.value = TRUE)
    => /\ Len(claimsFile) = Len(call.before)
       /\ \A i \in 1..Len(claimsFile) :
             /\ claimsFile[i].claim_id = call.before[i].claim_id
             /\ IF claimsFile[i].claim_id = call.claim_id
                THEN /\ claimsFile[i].status = "revoked"
                     /\ claimsFile[i].confidence_score = 0
                ELSE claimsFile[i] = call.before[i]
       /\ \A u \in {"u1", "u2"}, c \in {NoNumber, 0} :
             \A i \in 1..Len(ClaimRepository_get_claims_for_rag(u, c)) :
                ClaimRepository_get_claims_for_rag(u, c)[i].claim_id # call.claim_id

====
